---- MODULE Spec2Model ----
(***************************************************************************)
(* Model of go-game-explorer (src/main.go): the GameStore guarded by a     *)
(* sync.RWMutex, fetchGames (startup fetch and hourly refresh goroutine),  *)
(* streamHandler (one SSE session per connection) and statsHandler.        *)
(***************************************************************************)
EXTENDS Integers, Sequences, FiniteSets, TLC

\* ------------------------------------------------------------------ bounds
MaxTicks == 2        \* firings of the sessions' 3-second tickers modelled

\* ------------------------------------------------------------- data model
Sessions == {"s1", "s2"}
StatsReq == "stats"
Readers == Sessions \cup {StatsReq}

\* type Game struct: ID and the string fields (Title stands for all of them)
Game(id, title) == [ID |-> id, Title |-> title]
ZeroGame == Game(0, "")

\* catalogs the provider may serve; ID 1 occurs in both with other fields
CatA == <<Game(1, "a")>>
CatB == <<Game(1, "b"), Game(2, "b")>>
Catalogs == {<<>>, CatA, CatB}

Range(f) == {f[i] : i \in DOMAIN f}
IDs(cat) == {g.ID : g \in Range(cat)}

\* HTTP response of the provider: status code and body
Bodies ==
    {[kind |-> "array", items |-> c] : c \in Catalogs}
        \cup {[kind |-> "null", items |-> <<>>],
              [kind |-> "garbage", items |-> <<>>]}
StatusCodes == {200, 500}
Responses == [status : StatusCodes, body : Bodies]
NoBody == [kind |-> "none", items |-> <<>>]
NoResp == [status |-> 0, body |-> NoBody]

\* json.NewDecoder(resp.Body).Decode(&games) into a []Game
Decode(body) ==
    IF body.kind = "array" THEN [err |-> FALSE, games |-> body.items]
    ELSE IF body.kind = "null" THEN [err |-> FALSE, games |-> <<>>]
    ELSE [err |-> TRUE, games |-> <<>>]

\* json.Marshal(game) with the struct's json tags
Marshal(g) == [id |-> g.ID, title |-> g.Title]
\* sendGame's two message framings
ErrorEvent == [event |-> "error", data |-> [message |-> "No games available"]]
DataEvent(g) == [event |-> "message", data |-> Marshal(g)]
NoMsg == [event |-> "none", data |-> [message |-> ""]]

\* -------------------------------------------------------------- the state
VARIABLES
    games,      \* store.games
    mu,         \* store.mu: writer state and the set of read-lock holders
    fpc,        \* position of the goroutine running fetchGames (main, then refresh)
    resp,       \* fetchGames: resp of client.Get
    decoded,    \* fetchGames: var games []Game after Decode
    ferr,       \* error returned by the fetchGames call in progress
    serving,    \* main has reached r.Run: handlers are served
    before,     \* history: store.games when the current fetchGames call started
    clients,    \* the connections that clients open to GET /stream in this run
    pc,         \* position of each streamHandler
    flusherOK,  \* c.Writer.(http.Flusher) succeeds for this connection
    cancelled,  \* c.Request.Context().Done() is closed
    ticker,     \* the handler's time.Ticker: none / active / stopped
    tickC,      \* number of ticks buffered in ticker.C (capacity 1)
    fired,      \* history: firings of the ticker
    consumed,   \* history: ticks received from ticker.C by the select
    emitted,    \* history: stream messages written and flushed
    lastMsg,    \* last stream message written
    errResp,    \* the 500 "SSE not supported" response was sent
    sampled,    \* history: the handler called store.GetRandom
    lenChk,     \* GetRandom: len(s.games) read by the emptiness check
    lenBnd,     \* GetRandom: len(s.games) passed to rand.Intn
    idx,        \* GetRandom: result of rand.Intn
    res,        \* GetRandom: returned (Game, bool)
    snap,       \* history: s.games when GetRandom did its emptiness check
    seen,       \* history: catalogs installed at some instant of the call
    spc,        \* position of statsHandler
    cnt,        \* Count: returned len(s.games)
    statsResp   \* response of the last finished /stats request

storeVars == <<games, mu>>
fetchVars == <<fpc, resp, decoded, ferr, serving, before>>
connVars == <<clients, flusherOK, cancelled>>
tickVars == <<ticker, tickC, fired, consumed>>
outVars == <<emitted, lastMsg, errResp>>
callVars == <<sampled, lenChk, lenBnd, idx, res, snap>>
statsVars == <<spc, cnt, statsResp>>
vars == <<storeVars, fetchVars, pc, connVars, tickVars, outVars, callVars,
          seen, statsVars>>

NoRes == [game |-> ZeroGame, ok |-> FALSE]
NoStats == [total_games |-> 0, status |-> "none"]

InitFor(cs) ==
    /\ clients = cs
    /\ games = <<>>
    /\ mu = [w |-> "none", r |-> {}]
    /\ fpc = "get"
    /\ resp = NoResp
    /\ decoded = <<>>
    /\ ferr = FALSE
    /\ serving = FALSE
    /\ before = <<>>
    /\ pc = [s \in Sessions |-> "idle"]
    /\ flusherOK = [s \in Sessions |-> TRUE]
    /\ cancelled = [s \in Sessions |-> FALSE]
    /\ ticker = [s \in Sessions |-> "none"]
    /\ tickC = [s \in Sessions |-> 0]
    /\ fired = [s \in Sessions |-> 0]
    /\ consumed = [s \in Sessions |-> 0]
    /\ emitted = [s \in Sessions |-> 0]
    /\ lastMsg = [s \in Sessions |-> NoMsg]
    /\ errResp = [s \in Sessions |-> FALSE]
    /\ sampled = [s \in Sessions |-> FALSE]
    /\ lenChk = [s \in Sessions |-> 0]
    /\ lenBnd = [s \in Sessions |-> 0]
    /\ idx = [s \in Sessions |-> 0]
    /\ res = [s \in Sessions |-> NoRes]
    /\ snap = [s \in Sessions |-> <<>>]
    /\ seen = [r \in Readers |-> {}]
    /\ spc = "idle"
    /\ cnt = 0
    /\ statsResp = NoStats

\* one stream connection, next to the /stats requests and the refresh loop
Init == InitFor({"s1"})

\* ------------------------------------------------- sync.RWMutex (store.mu)
\* (variant: RLock that does not wait for the writer)
CanRLockNoWait(m) == TRUE
\* RLock proceeds unless a writer holds the lock or has announced itself
CanRLock(m) == m.w = "none"
\* (variant: Lock that does not wait for the readers)
CanLockNoWait(m) == TRUE
\* Lock proceeds once the readers that held the lock have left
CanLock(m) == m.r = {}

\* readers whose call is in progress see the catalog that is now installed
Installed(sn, m, cat) ==
    [r \in Readers |-> IF r \in m.r THEN sn[r] \cup {cat} ELSE sn[r]]

\* ------------------------------------------------ fetchGames and its loop
\* (variant: main starts the first fetch in the background and goes on to serve)
FetchGetAsync ==
    /\ fpc = "get"
    /\ serving' = TRUE
    /\ \/ /\ ferr' = TRUE
          /\ fpc' = "ret"
          /\ resp' = NoResp
       \/ \E r \in Responses :
            /\ resp' = r
            /\ fpc' = "decode"
            /\ ferr' = FALSE
    /\ UNCHANGED <<storeVars, decoded, before, pc, connVars,
                   tickVars, outVars, callVars, seen, statsVars>>
\* client.Get: a network failure, or a response with any status and body
FetchGet ==
    /\ fpc = "get"
    /\ \/ /\ ferr' = TRUE
          /\ fpc' = "ret"
          /\ resp' = NoResp
       \/ \E r \in Responses :
            /\ resp' = r
            /\ fpc' = "decode"
            /\ ferr' = FALSE
    /\ UNCHANGED <<storeVars, decoded, serving, before, pc, connVars,
                   tickVars, outVars, callVars, seen, statsVars>>

\* the decode of the body; an error returns before SetGames
FetchDecode ==
    /\ fpc = "decode"
    /\ LET d == Decode(resp.body) IN
         IF d.err
         THEN /\ ferr' = TRUE
              /\ fpc' = "ret"
              /\ decoded' = <<>>
         ELSE /\ ferr' = FALSE
              /\ fpc' = "lock"
              /\ decoded' = d.games
    /\ resp' = [resp EXCEPT !.body = NoBody]
    /\ UNCHANGED <<storeVars, serving, before, pc, connVars,
                   tickVars, outVars, callVars, seen, statsVars>>

\* (variant: Lock does not announce the writer, readers keep being admitted)
SetGamesLockUnannounced ==
    /\ fpc = "lock"
    /\ mu' = mu
    /\ fpc' = "lockwait"
    /\ UNCHANGED <<games, resp, decoded, ferr, serving, before, pc,
                   connVars, tickVars, outVars, callVars, seen, statsVars>>
\* SetGames: s.mu.Lock() announces the writer ...
SetGamesLock ==
    /\ fpc = "lock"
    /\ mu' = [mu EXCEPT !.w = "pending"]
    /\ fpc' = "lockwait"
    /\ UNCHANGED <<games, resp, decoded, ferr, serving, before, pc,
                   connVars, tickVars, outVars, callVars, seen, statsVars>>

\* ... and returns when the readers have drained
SetGamesAcquire ==
    /\ fpc = "lockwait"
    /\ CanLock(mu)
    /\ mu' = [mu EXCEPT !.w = "held"]
    /\ fpc' = "assign"
    /\ UNCHANGED <<games, resp, decoded, ferr, serving, before, pc,
                   connVars, tickVars, outVars, callVars, seen, statsVars>>

\* (variant: SetGames appends to the catalog instead of replacing it)
SetGamesAssignAppend ==
    /\ fpc = "assign"
    /\ games' = games \o decoded
    /\ seen' = Installed(seen, mu, games \o decoded)
    /\ fpc' = "unlock"
    /\ UNCHANGED <<mu, resp, decoded, ferr, serving, before, pc,
                   connVars, tickVars, outVars, callVars, statsVars>>
\* s.games = games
SetGamesAssign ==
    /\ fpc = "assign"
    /\ games' = decoded
    /\ seen' = Installed(seen, mu, decoded)
    /\ fpc' = "unlock"
    /\ UNCHANGED <<mu, resp, decoded, ferr, serving, before, pc,
                   connVars, tickVars, outVars, callVars, statsVars>>

\* deferred s.mu.Unlock(), then fetchGames logs and returns nil
SetGamesUnlock ==
    /\ fpc = "unlock"
    /\ mu' = [mu EXCEPT !.w = "none"]
    /\ fpc' = "ret"
    /\ decoded' = <<>>
    /\ UNCHANGED <<games, resp, ferr, serving, before, pc, connVars,
                   tickVars, outVars, callVars, seen, statsVars>>

\* (variant: the refresh loop ends when fetchGames returns an error)
FetchReturnStopOnError ==
    /\ fpc = "ret"
    /\ fpc' = IF ferr THEN "stopped" ELSE "wait"
    /\ serving' = TRUE
    /\ resp' = NoResp
    /\ ferr' = FALSE
    /\ before' = <<>>
    /\ UNCHANGED <<storeVars, decoded, pc, connVars, tickVars,
                   outVars, callVars, seen, statsVars>>
\* fetchGames has returned to main (first call) or to the refresh loop; after
\* the first call main starts the refresh goroutine and the router
FetchReturn ==
    /\ fpc = "ret"
    /\ fpc' = "wait"
    /\ serving' = TRUE
    /\ resp' = NoResp
    /\ ferr' = FALSE
    /\ before' = <<>>
    /\ UNCHANGED <<storeVars, decoded, pc, connVars, tickVars,
                   outVars, callVars, seen, statsVars>>

\* (variant: every hourly tick starts a fetch, whether or not the previous
\* one has returned)
RefreshTickOverlapping ==
    /\ serving
    /\ fpc # "get"
    /\ before' = games
    /\ fpc' = "get"
    /\ UNCHANGED <<storeVars, resp, decoded, ferr, serving, pc, connVars,
                   tickVars, outVars, callVars, seen, statsVars>>
\* for range ticker.C: the hourly tick starts the next fetchGames call
RefreshTick ==
    /\ fpc = "wait"
    /\ before' = games
    /\ fpc' = "get"
    /\ UNCHANGED <<storeVars, resp, decoded, ferr, serving, pc, connVars,
                   tickVars, outVars, callVars, seen, statsVars>>

\* --------------------------------------------------------- streamHandler
\* session states of the stream: Connecting -> Streaming -> Closed
SessionState(s) ==
    IF pc[s] \in {"idle", "flushcheck"} THEN "Connecting"
    ELSE IF pc[s] \in {"closed", "panic"} THEN "Closed"
    ELSE "Streaming"

\* a client opens GET /stream: gin calls streamHandler, which sets the headers
Connect(s) ==
    /\ serving
    /\ s \in clients
    /\ pc[s] = "idle"
    /\ \E ok \in BOOLEAN : flusherOK' = [flusherOK EXCEPT ![s] = ok]
    /\ pc' = [pc EXCEPT ![s] = "flushcheck"]
    /\ UNCHANGED <<storeVars, fetchVars, clients, cancelled, tickVars,
                   outVars, callVars, seen, statsVars>>

\* the client disconnects: the request context is done
Cancel(s) ==
    /\ pc[s] \notin {"idle", "closed", "panic"}
    /\ ~cancelled[s]
    /\ cancelled' = [cancelled EXCEPT ![s] = TRUE]
    /\ UNCHANGED <<storeVars, fetchVars, pc, clients, flusherOK, tickVars,
                   outVars, callVars, seen, statsVars>>

\* (variant: the ticker is created before the first sendGame call)
AfterFlushCheckTickerFirst(ok) == IF ok THEN "newticker" ELSE "closed"
\* (variant: the result of the type assertion is ignored)
AfterFlushCheckIgnored(ok) == "rlock"
\* where the handler goes after the type assertion c.Writer.(http.Flusher)
AfterFlushCheck(ok) == IF ok THEN "rlock" ELSE "closed"

\* (variant: the handler returns at once when the request context is done)
FlushCheckCtx(s) ==
    /\ pc[s] = "flushcheck"
    /\ pc' = [pc EXCEPT ![s] = IF cancelled[s] THEN "closed"
                               ELSE AfterFlushCheck(flusherOK[s])]
    /\ errResp' = [errResp EXCEPT ![s] = ~flusherOK[s]]
    /\ UNCHANGED <<storeVars, fetchVars, connVars, tickVars, emitted, lastMsg,
                   callVars, seen, statsVars>>
\* flusher, ok := c.Writer.(http.Flusher); if !ok { c.JSON(500, ...); return }
\* otherwise the first sendGame() call starts
FlushCheck(s) ==
    /\ pc[s] = "flushcheck"
    /\ pc' = [pc EXCEPT ![s] = AfterFlushCheck(flusherOK[s])]
    /\ errResp' = [errResp EXCEPT ![s] = ~flusherOK[s]]
    /\ UNCHANGED <<storeVars, fetchVars, connVars, tickVars, emitted, lastMsg,
                   callVars, seen, statsVars>>

\* GetRandom: s.mu.RLock()
GetRandomRLock(s) ==
    /\ pc[s] = "rlock"
    /\ CanRLock(mu)
    /\ mu' = [mu EXCEPT !.r = @ \cup {s}]
    /\ seen' = [seen EXCEPT ![s] = {games}]
    /\ sampled' = [sampled EXCEPT ![s] = TRUE]
    /\ pc' = [pc EXCEPT ![s] = "check"]
    /\ UNCHANGED <<games, fetchVars, connVars, tickVars, outVars, lenChk,
                   lenBnd, idx, res, snap, statsVars>>

\* (variant: off-by-one emptiness test)
IsEmptyOffByOne(n) == n <= 1
\* the emptiness test of GetRandom on the length it read
IsEmpty(n) == n = 0

\* GetRandom: if len(s.games) == 0 { return Game{}, false }
GetRandomCheck(s) ==
    /\ pc[s] = "check"
    /\ lenChk' = [lenChk EXCEPT ![s] = Len(games)]
    /\ snap' = [snap EXCEPT ![s] = games]
    /\ IF IsEmpty(Len(games))
       THEN /\ res' = [res EXCEPT ![s] = [game |-> ZeroGame, ok |-> FALSE]]
            /\ pc' = [pc EXCEPT ![s] = "runlock"]
       ELSE /\ res' = res
            /\ pc' = [pc EXCEPT ![s] = "pick"]
    /\ UNCHANGED <<storeVars, fetchVars, connVars, tickVars, outVars,
                   sampled, lenBnd, idx, seen, statsVars>>

\* (variant: the upper bound is included)
IntnInclusive(n) == 0 .. n
\* rand.Intn(n): any of 0 .. n-1
Intn(n) == 0 .. (n - 1)

\* GetRandom: rand.Intn(len(s.games))
GetRandomPick(s) ==
    /\ pc[s] = "pick"
    /\ Len(games) > 0
    /\ lenBnd' = [lenBnd EXCEPT ![s] = Len(games)]
    /\ \E i \in Intn(Len(games)) : idx' = [idx EXCEPT ![s] = i]
    /\ pc' = [pc EXCEPT ![s] = "index"]
    /\ UNCHANGED <<storeVars, fetchVars, connVars, tickVars, outVars,
                   sampled, lenChk, res, snap, seen, statsVars>>

\* GetRandom: s.games[i], with Go's bounds check: an index outside the slice
\* panics; the deferred RUnlock and ticker.Stop run and the handler is gone
GetRandomIndex(s) ==
    /\ pc[s] = "index"
    /\ IF idx[s] < Len(games)
       THEN /\ res' = [res EXCEPT ![s] = [game |-> games[idx[s] + 1], ok |-> TRUE]]
            /\ pc' = [pc EXCEPT ![s] = "runlock"]
            /\ UNCHANGED <<mu, ticker>>
       ELSE /\ res' = res
            /\ pc' = [pc EXCEPT ![s] = "panic"]
            /\ mu' = [mu EXCEPT !.r = @ \ {s}]
            /\ ticker' = [ticker EXCEPT ![s] = IF @ = "active" THEN "stopped" ELSE @]
    /\ UNCHANGED <<games, fetchVars, connVars, tickC, fired, consumed, outVars,
                   sampled, lenChk, lenBnd, idx, snap, seen, statsVars>>

\* (variant: GetRandom returns without releasing the read lock)
GetRandomRUnlockLeak(s) ==
    /\ pc[s] = "runlock"
    /\ lenChk' = [lenChk EXCEPT ![s] = 0]
    /\ lenBnd' = [lenBnd EXCEPT ![s] = 0]
    /\ idx' = [idx EXCEPT ![s] = 0]
    /\ pc' = [pc EXCEPT ![s] = "write"]
    /\ UNCHANGED <<storeVars, fetchVars, connVars, tickVars, outVars, sampled,
                   res, snap, seen, statsVars>>
\* GetRandom: deferred s.mu.RUnlock(); the call returns res to sendGame
GetRandomRUnlock(s) ==
    /\ pc[s] = "runlock"
    /\ mu' = [mu EXCEPT !.r = @ \ {s}]
    /\ lenChk' = [lenChk EXCEPT ![s] = 0]
    /\ lenBnd' = [lenBnd EXCEPT ![s] = 0]
    /\ idx' = [idx EXCEPT ![s] = 0]
    /\ pc' = [pc EXCEPT ![s] = "write"]
    /\ UNCHANGED <<games, fetchVars, connVars, tickVars, outVars, sampled,
                   res, snap, seen, statsVars>>

\* (variant: sendGame without the !ok branch)
MessageUnchecked(r) == DataEvent(r.game)
\* the message sendGame writes for a GetRandom result
Message(r) == IF r.ok THEN DataEvent(r.game) ELSE ErrorEvent

\* (variant: a tick answered by a second sendGame call)
AfterSendGameAgain(tk) == IF tk = "none" THEN "newticker" ELSE "rlock"
\* where the handler continues after a sendGame() call: the first call is
\* followed by time.NewTicker, the calls of the loop by the select
AfterSendGame(tk) == IF tk = "none" THEN "newticker" ELSE "select"

\* sendGame: fmt.Fprintf(c.Writer, ...); flusher.Flush()
SendGameWrite(s) ==
    /\ pc[s] = "write"
    /\ emitted' = [emitted EXCEPT ![s] = @ + 1]
    /\ lastMsg' = [lastMsg EXCEPT ![s] = Message(res[s])]
    /\ res' = [res EXCEPT ![s] = NoRes]
    /\ snap' = [snap EXCEPT ![s] = <<>>]
    /\ seen' = [seen EXCEPT ![s] = {}]
    /\ pc' = [pc EXCEPT ![s] = AfterSendGame(ticker[s])]
    /\ UNCHANGED <<storeVars, fetchVars, connVars, tickVars, errResp, sampled,
                   lenChk, lenBnd, idx, statsVars>>

\* ticker := time.NewTicker(3 * time.Second); defer ticker.Stop()
NewTicker(s) ==
    /\ pc[s] = "newticker"
    /\ ticker' = [ticker EXCEPT ![s] = "active"]
    /\ pc' = [pc EXCEPT ![s] = "select"]
    /\ UNCHANGED <<storeVars, fetchVars, connVars, tickC, fired, consumed,
                   outVars, callVars, seen, statsVars>>

RECURSIVE Sum(_, _)
Sum(f, S) == IF S = {} THEN 0 ELSE LET x == CHOOSE y \in S : TRUE
                                   IN f[x] + Sum(f, S \ {x})
TotalFired == Sum(fired, Sessions)

\* capacity of the channel ticker.C
TickerBuffer == 1

\* (variant: one ticker shared by all handlers, a tick reaches every session)
TickFireShared(s) ==
    /\ ticker[s] = "active"
    /\ TotalFired < MaxTicks
    /\ fired' = [fired EXCEPT ![s] = @ + 1]
    /\ tickC' = [t \in Sessions |->
                    IF ticker[t] = "active" /\ tickC[t] < TickerBuffer
                    THEN tickC[t] + 1 ELSE tickC[t]]
    /\ UNCHANGED <<storeVars, fetchVars, pc, connVars, ticker, consumed,
                   outVars, callVars, seen, statsVars>>
\* three seconds pass: the runtime sends a tick on ticker.C, and drops it
\* when the buffered tick has not been received yet
TickFire(s) ==
    /\ ticker[s] = "active"
    /\ TotalFired < MaxTicks
    /\ fired' = [fired EXCEPT ![s] = @ + 1]
    /\ tickC' = [tickC EXCEPT ![s] = IF @ < TickerBuffer THEN @ + 1 ELSE @]
    /\ UNCHANGED <<storeVars, fetchVars, pc, connVars, ticker, consumed,
                   outVars, callVars, seen, statsVars>>

\* (variant: the select leaves the loop without a done context)
DoneReadyAlways(c, t) == TRUE
\* whether the select may take the case <-c.Request.Context().Done(): Go
\* picks among the ready cases at random, a pending tick gives no priority
DoneReady(c, t) == c

\* select: case <-ticker.C: sendGame()
SelectTick(s) ==
    /\ pc[s] = "select"
    /\ tickC[s] > 0
    /\ tickC' = [tickC EXCEPT ![s] = @ - 1]
    /\ consumed' = [consumed EXCEPT ![s] = @ + 1]
    /\ pc' = [pc EXCEPT ![s] = "rlock"]
    /\ UNCHANGED <<storeVars, fetchVars, connVars, ticker, fired, outVars,
                   callVars, seen, statsVars>>

\* (variant: the deferred ticker.Stop() is missing)
StoppedLeak(tk) == tk
\* the ticker after the deferred ticker.Stop()
Stopped(tk) == "stopped"

\* select: case <-c.Request.Context().Done(): return (deferred ticker.Stop)
SelectDone(s) ==
    /\ pc[s] = "select"
    /\ DoneReady(cancelled[s], tickC[s])
    /\ ticker' = [ticker EXCEPT ![s] = Stopped(@)]
    /\ pc' = [pc EXCEPT ![s] = "closed"]
    /\ UNCHANGED <<storeVars, fetchVars, connVars, tickC, fired, consumed,
                   outVars, callVars, seen, statsVars>>

\* ----------------------------------------------------------- statsHandler
\* a client requests GET /stats
StatsStart ==
    /\ serving
    /\ spc = "idle"
    /\ spc' = "rlock"
    /\ statsResp' = NoStats
    /\ UNCHANGED <<storeVars, fetchVars, pc, connVars, tickVars, outVars,
                   callVars, seen, cnt>>

\* (variant: Count reads without waiting for the writer to unlock)
CountRLockUnguarded ==
    /\ spc = "rlock"
    /\ mu' = [mu EXCEPT !.r = @ \cup {StatsReq}]
    /\ seen' = [seen EXCEPT ![StatsReq] = {games}]
    /\ spc' = "read"
    /\ UNCHANGED <<games, fetchVars, pc, connVars, tickVars, outVars,
                   callVars, cnt, statsResp>>
\* Count: s.mu.RLock()
CountRLock ==
    /\ spc = "rlock"
    /\ CanRLock(mu)
    /\ mu' = [mu EXCEPT !.r = @ \cup {StatsReq}]
    /\ seen' = [seen EXCEPT ![StatsReq] = {games}]
    /\ spc' = "read"
    /\ UNCHANGED <<games, fetchVars, pc, connVars, tickVars, outVars,
                   callVars, cnt, statsResp>>

\* Count: return len(s.games)
CountRead ==
    /\ spc = "read"
    /\ cnt' = Len(games)
    /\ spc' = "runlock"
    /\ UNCHANGED <<storeVars, fetchVars, pc, connVars, tickVars, outVars,
                   callVars, seen, statsResp>>

\* Count: deferred s.mu.RUnlock(); then statsHandler writes
\* c.JSON(200, gin.H{"total_games": store.Count(), "status": "online"})
CountRUnlock ==
    /\ spc = "runlock"
    /\ mu' = [mu EXCEPT !.r = @ \ {StatsReq}]
    /\ statsResp' = [total_games |-> cnt, status |-> "online"]
    /\ cnt' = 0
    /\ seen' = [seen EXCEPT ![StatsReq] = {}]
    /\ spc' = "idle"
    /\ UNCHANGED <<games, fetchVars, pc, connVars, tickVars, outVars,
                   callVars>>

\* ------------------------------------------------------- the specification
Next ==
    \/ FetchGet
    \/ FetchDecode
    \/ SetGamesLock
    \/ SetGamesAcquire
    \/ SetGamesAssign
    \/ SetGamesUnlock
    \/ FetchReturn
    \/ RefreshTick
    \/ StatsStart
    \/ CountRLock
    \/ CountRead
    \/ CountRUnlock
    \/ \E s \in Sessions :
        \/ Connect(s)
        \/ Cancel(s)
        \/ FlushCheck(s)
        \/ GetRandomRLock(s)
        \/ GetRandomCheck(s)
        \/ GetRandomPick(s)
        \/ GetRandomIndex(s)
        \/ GetRandomRUnlock(s)
        \/ SendGameWrite(s)
        \/ NewTicker(s)
        \/ TickFire(s)
        \/ SelectTick(s)
        \/ SelectDone(s)

Spec == Init /\ [][Next]_vars

\* the steps a handler takes without waiting for the store lock
HandlerStep(s) ==
    \/ FlushCheck(s)
    \/ GetRandomCheck(s)
    \/ GetRandomPick(s)
    \/ GetRandomIndex(s)
    \/ GetRandomRUnlock(s)
    \/ SendGameWrite(s)
    \/ NewTicker(s)
    \/ SelectTick(s)
    \/ SelectDone(s)

\* the steps of a fetchGames call that has started
FetcherStep ==
    \/ FetchGet
    \/ FetchDecode
    \/ SetGamesLock
    \/ SetGamesAcquire
    \/ SetGamesAssign
    \/ SetGamesUnlock
    \/ FetchReturn

\* fairness of the Go scheduler and runtime: every runnable goroutine runs
\* (a select with a ready case is runnable); a reader blocked in RLock is
\* admitted when the writer unlocks; the runtime timer of a ticker fires.
\* Clients (Connect, Cancel, StatsStart) and the hourly refresh are not
\* obliged to act.
Fairness ==
    /\ WF_vars(FetcherStep)
    /\ \A s \in Sessions :
        /\ WF_vars(HandlerStep(s))
        /\ SF_vars(GetRandomRLock(s))
        /\ WF_vars(TickFire(s))

\* the stream sessions and the refresh loop, with no /stats request arriving
StreamNext ==
    \/ FetchGet
    \/ FetchDecode
    \/ SetGamesLock
    \/ SetGamesAcquire
    \/ SetGamesAssign
    \/ SetGamesUnlock
    \/ FetchReturn
    \/ RefreshTick
    \/ \E s \in Sessions :
        \/ Connect(s)
        \/ Cancel(s)
        \/ FlushCheck(s)
        \/ GetRandomRLock(s)
        \/ GetRandomCheck(s)
        \/ GetRandomPick(s)
        \/ GetRandomIndex(s)
        \/ GetRandomRUnlock(s)
        \/ SendGameWrite(s)
        \/ NewTicker(s)
        \/ TickFire(s)
        \/ SelectTick(s)
        \/ SelectDone(s)

LiveSpec == Init /\ [][StreamNext]_vars /\ Fairness

\* a /stats handler that has started runs, and its RLock is admitted when
\* the writer unlocks
StatsStep == CountRead \/ CountRUnlock

StatsFairness ==
    /\ WF_vars(StatsStep)
    /\ SF_vars(CountRLock)

\* the steps of a handler up to its select loop, and its return from there
OpenStep(s) ==
    \/ FlushCheck(s)
    \/ GetRandomCheck(s)
    \/ GetRandomPick(s)
    \/ GetRandomIndex(s)
    \/ GetRandomRUnlock(s)
    \/ SendGameWrite(s)
    \/ NewTicker(s)
    \/ SelectDone(s)

\* everything that takes the store lock: the refresh loop, the /stats
\* requests, which keep arriving, and a stream session up to its select loop
\* (its 3-second ticker does not fire within the run)
StoreNext ==
    \/ FetchGet
    \/ FetchDecode
    \/ SetGamesLock
    \/ SetGamesAcquire
    \/ SetGamesAssign
    \/ SetGamesUnlock
    \/ FetchReturn
    \/ RefreshTick
    \/ StatsStart
    \/ CountRLock
    \/ CountRead
    \/ CountRUnlock
    \/ \E s \in Sessions :
        \/ Connect(s)
        \/ Cancel(s)
        \/ FlushCheck(s)
        \/ GetRandomRLock(s)
        \/ GetRandomCheck(s)
        \/ GetRandomPick(s)
        \/ GetRandomIndex(s)
        \/ GetRandomRUnlock(s)
        \/ SendGameWrite(s)
        \/ NewTicker(s)
        \/ SelectDone(s)

StoreFairness ==
    /\ WF_vars(FetcherStep)
    /\ StatsFairness
    /\ \A s \in Sessions :
        /\ WF_vars(OpenStep(s))
        /\ SF_vars(GetRandomRLock(s))

StoreLiveSpec == Init /\ [][StoreNext]_vars /\ StoreFairness

\* two stream connections and /stats requests, served from the catalog of
\* the startup fetch (the hourly refresh does not come within the run)
TwoNext ==
    \/ FetchGet
    \/ FetchDecode
    \/ SetGamesLock
    \/ SetGamesAcquire
    \/ SetGamesAssign
    \/ SetGamesUnlock
    \/ FetchReturn
    \/ StatsStart
    \/ CountRLock
    \/ CountRead
    \/ CountRUnlock
    \/ \E s \in Sessions :
        \/ Connect(s)
        \/ Cancel(s)
        \/ FlushCheck(s)
        \/ GetRandomRLock(s)
        \/ GetRandomCheck(s)
        \/ GetRandomPick(s)
        \/ GetRandomIndex(s)
        \/ GetRandomRUnlock(s)
        \/ SendGameWrite(s)
        \/ NewTicker(s)
        \/ TickFire(s)
        \/ SelectTick(s)
        \/ SelectDone(s)

SpecTwo == InitFor(Sessions) /\ [][TwoNext]_vars

\* ------------------------------------------------------------- properties
InGetRandom(s) == pc[s] \in {"check", "pick", "index", "runlock"}
InSendGame(s) == pc[s] \in {"rlock", "check", "pick", "index", "runlock", "write"}

\* C1: every GetRandom call that races with SetGames returns an item that
\* belongs, with all its fields, to one catalog that was installed at some
\* instant of the call (or found = false for an installed empty catalog),
\* and no call dies of an index out of range.
C1_SampleFromOneCatalog ==
    \A s \in Sessions :
        /\ pc[s] # "panic"
        /\ pc[s] \in {"runlock", "write"} =>
             \E c \in seen[s] :
                IF res[s].ok THEN res[s].game \in Range(c)
                ELSE c = <<>> /\ res[s].game = ZeroGame

\* a GetRandom call holds its item while SetGames is waiting in Lock
C1_Witness ==
    \E s \in Sessions :
        /\ pc[s] = "runlock"
        /\ res[s].ok
        /\ mu.w = "pending"
        /\ decoded # games

\* a fetchGames call failed for one of the listed reasons: client.Get returned
\* an error, the provider answered with a non-success status, or the payload
\* did not decode
FetchFailed == ferr \/ (resp.status # 0 /\ resp.status \notin 200 .. 299)

\* C2: a fetch attempt that fails (network failure, non-success response,
\* malformed payload) leaves the installed catalog as it was before the
\* attempt.
C2_FailedFetchKeepsCatalog ==
    (fpc = "ret" /\ FetchFailed) => games = before

\* C3: once the request context of a session is done, the session writes no
\* further message.
C3_NoEmissionAfterCancel ==
    [][\A s \in Sessions : cancelled[s] => emitted'[s] = emitted[s]]_vars

\* C4: under fair scheduling a session whose context is done reaches Closed,
\* and a Closed session has no active ticker.
C4_CancelledSessionCloses ==
    /\ [](\A s \in Sessions :
            SessionState(s) = "Closed" => ticker[s] # "active")
    /\ \A s \in Sessions : cancelled[s] ~> (SessionState(s) = "Closed")

\* a session closed by its cancellation, its ticker stopped
C4_Witness ==
    \E s \in Sessions :
        /\ cancelled[s]
        /\ pc[s] = "closed"
        /\ ticker[s] = "stopped"
        /\ consumed[s] > 0

\* C5: the first message of a session is written before its ticker exists,
\* so before any tick of the session fires or is received.
C5_FirstEmissionBeforeTicker ==
    \A s \in Sessions :
        (ticker[s] # "none" \/ fired[s] > 0 \/ consumed[s] > 0)
            => emitted[s] >= 1

\* the ticker was just created, exactly one message is out
C5_Witness ==
    \E s \in Sessions :
        /\ ticker[s] = "active"
        /\ fired[s] = 0
        /\ emitted[s] = 1

EmittedFor(s) ==
    IF SessionState(s) = "Connecting" THEN 0
    ELSE IF InSendGame(s) THEN consumed[s]
    ELSE IF pc[s] = "closed" /\ ~flusherOK[s] THEN 0
    ELSE 1 + consumed[s]

C7_FoundIffNonEmpty ==
    \A s \in Sessions :
        pc[s] \in {"runlock", "write"} =>
            /\ (~res[s].ok /\ res[s].game = ZeroGame) <=> (snap[s] = <<>>)
            /\ snap[s] # <<>> => (res[s].ok /\ res[s].game.ID \in IDs(snap[s]))

\* GetRandom has returned the second game of a two-game snapshot
C7_Witness ==
    \E s \in Sessions :
        /\ pc[s] = "write"
        /\ snap[s] = CatB
        /\ res[s].ok
        /\ res[s].game.ID = 2

\* C8: an emission step that sampled an empty catalog writes the error event
\* {"message":"No games available"} and leaves the session Streaming; one
\* that sampled a non-empty catalog writes a game of that catalog.
C8_EmptyCatalogErrorEvent ==
    [][\A s \in Sessions :
        emitted'[s] = emitted[s] + 1 =>
            /\ (lastMsg'[s] = ErrorEvent) <=> (snap[s] = <<>>)
            /\ snap[s] # <<>> =>
                 /\ lastMsg'[s].event = "message"
                 /\ lastMsg'[s].data.id \in IDs(snap[s])
            /\ SessionState(s)' = "Streaming"]_vars

\* a session whose previous message was the error event is about to write a
\* game sampled from a catalog installed in the meantime
C8_Witness ==
    \E s \in Sessions :
        /\ pc[s] = "write"
        /\ emitted[s] >= 1
        /\ lastMsg[s] = ErrorEvent
        /\ res[s].ok
        /\ consumed[s] >= 1

\* C9: a connection whose writer is no http.Flusher goes from Connecting to
\* Closed with the error response: no Streaming, no message, no sample, no
\* ticker.
C9_NoFlusherClosesAtOnce ==
    \A s \in Sessions :
        /\ ~flusherOK[s] =>
             /\ pc[s] \in {"flushcheck", "closed"}
             /\ emitted[s] = 0
             /\ ~sampled[s]
             /\ ticker[s] = "none"
             /\ pc[s] = "closed" => errResp[s]
        /\ errResp[s] => ~flusherOK[s]

\* the handler has answered a connection without flush support
C9_Witness ==
    \E s \in Sessions :
        /\ ~flusherOK[s]
        /\ pc[s] = "closed"
        /\ errResp[s]

\* C10: a reader works on one snapshot: under the read lock the length of the
\* emptiness check, the bound given to rand.Intn and the slice indexed are
\* those of the installed catalog; the index is inside the slice; Count
\* returns the length of the catalog installed while it holds the lock.
C10_ReaderBindsOneSnapshot ==
    /\ \A s \in Sessions :
        /\ pc[s] # "panic"
        /\ pc[s] \in {"pick", "index"} =>
             /\ lenChk[s] = Len(games)
             /\ snap[s] = games
        /\ pc[s] = "index" =>
             /\ lenBnd[s] = Len(games)
             /\ idx[s] \in 0 .. (Len(games) - 1)
    /\ spc = "runlock" => cnt = Len(games)

\* a reader indexes the second game while SetGames waits for the lock with a
\* shorter catalog
C10_Witness ==
    \E s \in Sessions :
        /\ pc[s] = "index"
        /\ idx[s] = 1
        /\ mu.w = "pending"
        /\ Len(decoded) < Len(games)


\* C11: the write lock is held only between Lock and Unlock of SetGames,
\* around the slice assignment, never while client.Get or the decode is in
\* progress; a handler holds the read lock only inside GetRandom or Count,
\* never while it writes and flushes a message. So a fetch in progress leaves
\* RLock free, and a handler that is writing to its client does not keep
\* SetGames from acquiring the lock.
C11_LocksHeldOnlyInStore ==
    /\ (mu.w # "none") <=> (fpc \in {"lockwait", "assign", "unlock"})
    /\ fpc \in {"get", "decode"} => CanRLock(mu)
    /\ \A s \in Sessions :
        /\ (s \in mu.r) <=> InGetRandom(s)
        /\ pc[s] = "write" => CanLock([mu EXCEPT !.r = @ \ {StatsReq}])
    /\ (StatsReq \in mu.r) <=> (spc \in {"read", "runlock"})

\* a handler is writing its message while SetGames holds the write lock
C11_Witness ==
    \E s \in Sessions :
        /\ pc[s] = "write"
        /\ mu.w = "held"


\* C12: the first fetchGames call returns, with or without an error, before
\* any request is served: until then no stream handler and no /stats handler
\* has started and the refresh loop does not run; serving begins in the step
\* in which that call returns, and after a failed call it begins with the
\* empty catalog.
C12_StartupFetchBeforeServing ==
    /\ [](~serving =>
            /\ \A s \in Sessions : pc[s] = "idle"
            /\ spc = "idle" /\ statsResp = NoStats
            /\ fpc \notin {"wait"}
            /\ before = <<>>)
    /\ [][(~serving /\ serving') =>
            /\ fpc = "ret" /\ fpc' = "wait"
            /\ ferr => games' = <<>>]_vars

\* the startup fetch has failed and main is about to serve the empty catalog
C12_Witness ==
    /\ ~serving
    /\ fpc = "ret"
    /\ ferr
    /\ games = <<>>
    /\ ENABLED FetchReturn


\* C13: a failed fetch does not end the refresh loop: every fetchGames call
\* that starts returns, a returned call (failed or not) leaves the loop
\* waiting for its ticker, the next tick starts a new call, and a call that
\* decodes its payload installs it.
C13_RefreshLoopSurvivesFailure ==
    /\ [][fpc = "ret" => fpc' \in {"ret", "wait"}]_vars
    /\ [](fpc = "wait" => ENABLED RefreshTick)
    /\ [][(fpc = "wait" /\ fpc' # "wait") => fpc' = "get"]_vars
    /\ (fpc = "get") ~> (fpc = "wait")
    /\ [](fpc = "unlock" => games = decoded)

\* a refresh attempt has failed while a catalog is installed and a session
\* is being served
C13_Witness ==
    /\ serving
    /\ fpc = "ret"
    /\ ferr
    /\ games # <<>>
    /\ \E s \in Sessions : SessionState(s) = "Streaming"


\* C14: SetGames replaces the whole catalog (the catalog changes only in its
\* assignment step, to exactly the decoded slice), and /stats answers with
\* status "online" and the length of the catalog installed when Count read
\* it: nothing of an earlier catalog is counted, and 0 while nothing is
\* installed.
C14_CountIsInstalledLength ==
    /\ [][games' # games => (fpc = "assign" /\ games' = decoded)]_vars
    /\ [](spc = "runlock" => cnt = Len(games))
    /\ [][(spc = "runlock" /\ spc' = "idle") =>
            statsResp' = [total_games |-> Len(games), status |-> "online"]]_vars
    /\ [](statsResp # NoStats =>
            /\ statsResp.status = "online"
            /\ statsResp.total_games \in {Len(c) : c \in Catalogs})

\* /stats counts one game although the session's last message came from the
\* two-game catalog installed before
C14_Witness ==
    /\ spc = "runlock"
    /\ cnt = 1
    /\ \E s \in Sessions : lastMsg[s] = DataEvent(CatB[2])


\* C15: a session leaves Streaming for Closed only in a step taken with its
\* request context done; an empty catalog, a replaced catalog, any number of
\* ticks or of messages written do not close it.
C15_OnlyCancelCloses ==
    [][\A s \in Sessions :
        (SessionState(s) = "Streaming" /\ SessionState(s)' = "Closed")
            => (cancelled[s] /\ pc[s] = "select" /\ pc'[s] = "closed")]_vars

\* a session that wrote error events for an empty catalog on every tick was
\* closed by its cancellation
C15_Witness ==
    \E s \in Sessions :
        /\ pc[s] = "closed"
        /\ cancelled[s]
        /\ lastMsg[s] = ErrorEvent
        /\ emitted[s] = 1 + MaxTicks


\* what belongs to one stream session: its handler's position and locals,
\* its connection, its ticker and what it has written
SessionVars(s) ==
    <<pc[s], flusherOK[s], cancelled[s], ticker[s], tickC[s], fired[s],
      consumed[s], emitted[s], lastMsg[s], errResp[s], sampled[s], lenChk[s],
      lenBnd[s], idx[s], res[s], snap[s]>>

\* C16: sessions and /stats only read the store and are independent: a step
\* that changes anything of one session leaves the catalog and everything of
\* every other session unchanged, and a step of a /stats request leaves the
\* catalog and every session unchanged.
C16_SessionsIndependent ==
    [][/\ \A s \in Sessions :
            SessionVars(s)' # SessionVars(s) =>
                /\ games' = games
                /\ \A t \in Sessions \ {s} : SessionVars(t)' = SessionVars(t)
       /\ statsVars' # statsVars =>
            /\ games' = games
            /\ \A t \in Sessions : SessionVars(t)' = SessionVars(t)]_vars

\* one session was cancelled and closed while the other, still connected,
\* keeps its ticker and has written a message for a tick
C16_Witness ==
    \E s, t \in Sessions :
        /\ s # t
        /\ cancelled[s] /\ pc[s] = "closed" /\ ticker[s] = "stopped"
        /\ ~cancelled[t] /\ pc[t] = "select" /\ ticker[t] = "active"
        /\ emitted[t] >= 2
        /\ statsResp # NoStats


\* C17: the random selection is over the whole catalog and only over it:
\* when GetRandom is about to draw, every index 0 .. len(games)-1 can be
\* drawn, and the index it has drawn is inside the catalog it measured, so
\* the game returned is one of the catalog's games.
C17_PickRangesOverCatalog ==
    \A s \in Sessions :
        /\ pc[s] = "pick" =>
            \A i \in 0 .. (Len(games) - 1) :
                ENABLED (GetRandomPick(s) /\ idx'[s] = i)
        /\ pc[s] = "index" =>
            /\ lenBnd[s] = Len(games)
            /\ idx[s] \in 0 .. (lenBnd[s] - 1)
        /\ (pc[s] = "runlock" /\ res[s].ok) => res[s].game \in Range(games)
        /\ pc[s] # "panic"

\* the last game of a two-game catalog has been drawn
C17_Witness ==
    \E s \in Sessions :
        /\ pc[s] = "runlock" /\ res[s].ok
        /\ Len(games) = 2 /\ res[s].game = games[2]


\* C18: the store's lock excludes: while SetGames holds the write lock no
\* GetRandom and no Count holds the read lock; the write lock is held only by
\* the single fetchGames between Lock and Unlock; readers holding the lock
\* exclude the writer but not one another.
C18_WriterExcludesReaders ==
    /\ mu.w = "held" => mu.r = {}
    /\ mu.r # {} => fpc \notin {"assign", "unlock"}
    /\ (mu.w = "held") <=> (fpc \in {"assign", "unlock"})
    /\ mu.r \subseteq Readers
    /\ \A s \in Sessions :
        pc[s] \in {"check", "pick", "index", "runlock"} => mu.w # "held"
    /\ spc \in {"read", "runlock"} => mu.w # "held"

\* a GetRandom and a Count hold the read lock at the same time
C18_Witness ==
    /\ Cardinality(mu.r) = 2
    /\ \E s \in Sessions : pc[s] = "pick"
    /\ spc = "read"


\* C19: one fetch-and-install at a time: the refresh loop does not run before
\* the startup fetch has returned; a fetch starts only when the previous one
\* has returned, with nothing of it left (no write lock, no response, no
\* decoded catalog); and from a fetch's start to its install the catalog is
\* still the one that was there when the fetch started, so each install
\* replaces the install of the fetch started before it.
C19_OneFetchAtATime ==
    /\ [](~serving => (fpc # "wait" /\ before = <<>>))
    /\ [][(fpc' = "get" /\ fpc # "get") =>
            /\ fpc = "wait" /\ serving
            /\ mu.w = "none" /\ resp = NoResp /\ decoded = <<>> /\ ~ferr
            /\ before' = games]_vars
    /\ [](fpc \in {"get", "decode", "lock", "lockwait", "assign"} =>
            games = before)
    /\ [](fpc \in {"ret", "wait"} => mu.w = "none")

\* a refresh has installed a catalog over a different, non-empty one
C19_Witness ==
    /\ serving /\ fpc = "unlock"
    /\ before # <<>> /\ games # <<>> /\ games # before


\* C20: a session that passes the flusher check writes at least one message
\* before it closes, whether or not its client has already disconnected: with
\* a flusher the handler goes from the check into the first sendGame even
\* when the context is done, it closes only from the select loop, and a
\* closed session with a flusher has sampled the store and written a message.
C20_FirstMessageBeforeClose ==
    /\ [](\A s \in Sessions :
            /\ (pc[s] = "closed" /\ flusherOK[s]) =>
                    (emitted[s] >= 1 /\ sampled[s] /\ lastMsg[s] # NoMsg)
            /\ (flusherOK[s] /\ emitted[s] = 0 /\ pc[s] # "idle") =>
                    /\ SessionState(s) # "Closed"
                    /\ (pc[s] = "rlock" \/ ENABLED HandlerStep(s)))
    /\ [][\A s \in Sessions :
            /\ (pc[s] = "flushcheck" /\ pc'[s] # "flushcheck" /\ flusherOK[s])
                    => pc'[s] = "rlock"
            /\ (pc[s] # "closed" /\ pc'[s] = "closed" /\ flusherOK[s])
                    => (pc[s] = "select" /\ emitted[s] >= 1)]_vars

\* a client that was gone before any tick: the session closed after exactly
\* the first message
C20_Witness ==
    \E s \in Sessions :
        /\ flusherOK[s] /\ cancelled[s] /\ pc[s] = "closed"
        /\ emitted[s] = 1 /\ fired[s] = 0 /\ sampled[s]


\* C21: under fair scheduling every store operation that starts completes:
\* a SetGames that has called Lock gets the lock and returns, although
\* GetRandom and Count calls keep arriving; a GetRandom or Count that has
\* called RLock returns; an operation that has returned holds no lock, and a
\* lock is given up only by a step of the operation that took it; and whoever
\* waits for the lock waits for a holder that can run.
C21_StoreOperationsComplete ==
    /\ (fpc \in {"lock", "lockwait", "assign", "unlock"}) ~> (fpc = "ret")
    /\ \A s \in Sessions :
        (pc[s] = "rlock" \/ InGetRandom(s)) ~> (pc[s] = "write")
    /\ (spc # "idle") ~> (spc = "idle")
    /\ [](/\ fpc \in {"ret", "wait", "get", "decode", "lock"} => mu.w = "none"
          /\ \A s \in Sessions : pc[s] = "write" => s \notin mu.r
          /\ spc = "idle" => StatsReq \notin mu.r)
    /\ [](fpc = "lockwait" =>
            \/ ENABLED SetGamesAcquire
            \/ \E s \in Sessions : s \in mu.r /\ ENABLED OpenStep(s)
            \/ StatsReq \in mu.r /\ ENABLED StatsStep)
    /\ [](((\E s \in Sessions : pc[s] = "rlock") \/ spc = "rlock") =>
            \/ CanRLock(mu)
            \/ ENABLED FetcherStep
            \/ \E s \in Sessions : s \in mu.r /\ ENABLED OpenStep(s)
            \/ StatsReq \in mu.r /\ ENABLED StatsStep)
    /\ [][/\ \A s \in Sessions : (s \in mu.r /\ s \notin mu.r') =>
                (pc[s] = "runlock" /\ pc'[s] = "write")
          /\ (StatsReq \in mu.r /\ StatsReq \notin mu.r') =>
                (spc = "runlock" /\ spc' = "idle")
          /\ (mu.w # "none" /\ mu.w' = "none") =>
                (fpc = "unlock" /\ fpc' = "ret")]_vars

\* the writer has announced itself and waits for a Count that holds the read
\* lock, while a GetRandom that came after it waits for the writer
C21_Witness ==
    /\ fpc = "lockwait" /\ mu.w = "pending"
    /\ StatsReq \in mu.r /\ spc = "read"
    /\ \E s \in Sessions : pc[s] = "rlock"

====
